---- MODULE Spec2Model ----
(***************************************************************************)
(* Model of the geometric sampling and placement code of bridgeview:       *)
(* the terrain height resolver (treegrow.py, BaseTreeGrow._find_height),   *)
(* random scattering (TreeGrowRandom), targeted placement (TreeGrow),      *)
(* the data generation run (generate.py, Generate.run) and the sphere-mode *)
(* camera sampler (render/render.py, Render.random_camera_sphere).         *)
(*                                                                         *)
(* Coordinates are integers on a grid; a point is a triple <<x, y, z>>.    *)
(* Distances are compared through their squares, which is exact.  A draw   *)
(* of np.random.uniform(0, dig) is a grid value in 0 .. Dig - 1.           *)
(***************************************************************************)
EXTENDS Integers, Sequences, FiniteSets, TLC

\* ------------------------------------------------------------------ bounds

\* The dig tolerance (self._dig) in grid units; draws are 0 .. Dig - 1.
Dig == 3
\* Largest height of a terrain vertex.
MaxZ == 2
\* Largest number of terrain vertices.
MaxVerts == 2
\* The clearance of TreeGrowRandom (self.clearance) in grid units.
Clearance == 2
\* Largest `number` grow_trees is called with.
MaxNumber == 3
\* Largest number of target records of a key.
MaxTargets == 3
\* Largest number of instances of a key before grow_trees(key) is called.
MaxInstances == 2
\* Largest `size` Generate.run is called with.
MaxSize == 2
\* Largest height of a drawn camera location above the sphere centre.
CameraReach == 3
\* Largest `number` and `pieces` segment is called with.
MaxTotal == 4
MaxPieces == 3
\* Largest number of objects BoundingSphere.find is called on.
MaxObjects == 2
\* Largest number of times Generate.grow_trees is run on a placement file.
MaxRuns == 2
\* Largest number of add_textures and add_parts_to_group calls.
MaxCalls == 3

VARIABLES
    terrain,    \* the landscape KD tree: a sequence of vertices (build order)
    loc,        \* the location the height resolver works on
    hpc,        \* resolver control: "idle", "call", "done", "error"
    redrawn,    \* whether the current resolver call has redrawn z
    app,        \* which application of the resolver is running (1 or 2)
    start,      \* the location the first application was called with
    first,      \* the location the first application returned
    avoid,      \* the obstacle KD tree (self.avoid_tree): a sequence of vertices
    trees,      \* self.trees: the locations of the instances to keep clear of
    seedTree,   \* the seed_tree list of grow_trees: instance locations
    number,     \* the number of instances grow_trees still has to grow
    initHeight, \* self._init_height
    spc,        \* scattering control: "idle", "call", "draw", "height",
                \* "done", "error"
    candidate,  \* the location _found_clearing has last accepted
    locations,  \* self.locations[key]: the target records of the key
    instances,  \* the instances of the key in the scene, in scene order
    nprev,      \* len(previous_trees) of the running grow_trees(key)
    ti,         \* position of the zip_longest loop of grow_trees(key)
    tpc,        \* targeted placement control: "idle", "call", "loop",
                \* "height", "done", "error"
    targets0,   \* the target records as they were when grow_trees was called
    instances0, \* the instances of the key as they were at that time
    outFile,    \* the sample file files['out']: its state ("absent",
                \* "empty" or "json") and its records, a sequence of
                \* [seq, point]
    fileWrites, \* how often Generate.run has written the sample file
    pointCalls, \* how often Generate.run has called point()
    data,       \* the `data` mapping of Generate.run, in iteration order
    images,     \* the image files that exist in self.path
    rlog,       \* the image files rendered by the run, in order
    gargs,      \* the arguments of run: size, all_levels, render_type
    gi,         \* position of the running loop over data.items()
    gl,         \* position of the loop over levels
    gpc,        \* run control: "idle", "call", "visual", "semantic",
                \* "depth", "done", "error"
    outFile0,   \* the sample file as it was when run was called
    images0,    \* the image files that existed when run was called
    copts,      \* the camera options of Render (self.opts): camera_clearance,
                \* camera_floor, camera_theta
    csphere,    \* the centre of the sphere random_camera_sphere has chosen
    cloc,       \* the camera location being sampled
    cpc,        \* camera sampling control: "idle", "call", "draw",
                \* "height", "done", "error"
    snumber,    \* the `number` argument of the running segment call
    pieces,     \* the `pieces` argument of the running segment call
    res,        \* the `res` argument of the running segment call
    segArgs,    \* number and pieces as segment was first called
    segpc,      \* segment control: "idle", "call", "done"
    objects,    \* the objects handed to BoundingSphere.find (self.objects of
                \* Render): for each the 8 corners of bound_box in world space
    bcentre,    \* the `centre` argument of BoundingSphere.find
    sphere,     \* what BoundingSphere.find returned
    bpc,        \* BoundingSphere.find control: "idle", "call", "done", "error"
    gfile,      \* the groups file of Scale.write_groups: its state and the
                \* mapping it holds
    gfile0,     \* the groups file as it was when write_groups was called
    wdata,      \* the `data` mapping of write_groups
    wargs,      \* the arguments of write_groups (name, overwrite) and
                \* self.groups
    wpc,        \* write_groups control: "idle", "call", "loaded", "done",
                \* "error"
    rconf,      \* the camera targets of the configuration file: spheres and
                \* lines, each given or not
    spheres,    \* the centres of self.opts['spheres'] (self.spheres in
                \* src/render.py), each times 8
    angleY,     \* camera.data.angle_y, as the squared cosine of its half
    lloc,       \* the location random_camera_line has chosen, times 8
    lrot,       \* the rotation drawn by _choose_rotation
    rejected,   \* whether _choose_rotation has rejected a rotation
    accepted,   \* the first rotation drawn that had a sphere centre in view
    rpc,        \* camera dispatch control: "idle", "init", "camera",
                \* "line", "rotation", "loop", "sphere", "done", "error"
    treesFile,  \* the placement file files['trees']: for each key its
                \* target records
    allLocations, \* self.locations of TreeGrow: for each key its records
    scene,      \* bpy.data.objects: for each key its instances
    key,        \* position of the loop of grow_all over the keys
    run,        \* how often Generate.grow_trees has been started
    kpc,        \* Generate.grow_trees control: "idle", "load", "keys",
                \* "done"
    textures,   \* self.textures of Textures: a mapping in insertion order,
                \* a sequence of [key, value]
    groups,     \* self.groups of Textures, likewise
    tlog,       \* what self.textures has been given, in order, as
                \* [key, value]: the items last read from a file and the
                \* add_textures calls made since
    glog,       \* the same for self.groups and add_parts_to_group
    material,   \* the texture each part of the scene has been given
    xpc         \* Textures control: "idle", "ready", "error"

hvars == <<terrain, loc, hpc, redrawn>>
avars == <<app, start, first>>
svars == <<avoid, trees, seedTree, number, spc, candidate>>
tvars == <<locations, instances, nprev, ti, tpc, targets0, instances0>>
gvars == <<outFile, fileWrites, pointCalls, data, images, rlog, gargs,
           gi, gl, gpc, outFile0, images0>>
vars == <<terrain, loc, hpc, redrawn, app, start, first,
          avoid, trees, seedTree, number, initHeight, spc, candidate,
          locations, instances, nprev, ti, tpc, targets0, instances0,
          outFile, fileWrites, pointCalls, data, images, rlog, gargs,
          gi, gl, gpc, outFile0, images0,
          copts, csphere, cloc, cpc,
          snumber, pieces, res, segArgs, segpc,
          objects, bcentre, sphere, bpc,
          gfile, gfile0, wdata, wargs, wpc,
          rconf, spheres, angleY, lloc, lrot, rejected, accepted, rpc,
          treesFile, allLocations, scene, key, run, kpc,
          textures, groups, tlog, glog, material, xpc>>
cvars == <<copts, csphere, cloc, cpc>>
pvars == <<snumber, pieces, res, segArgs, segpc>>
bvars == <<objects, bcentre, sphere, bpc>>
wvars == <<gfile, gfile0, wdata, wargs, wpc>>
lvars == <<rconf, spheres, angleY, lloc, lrot, rejected, accepted, rpc>>
kvars == <<treesFile, allLocations, scene, key, run, kpc>>
xvars == <<textures, groups, tlog, glog, material, xpc>>
uvars == <<pvars, bvars, wvars, lvars, kvars, xvars>>

\* ------------------------------------------------------------ spatial index

NoVertex == <<>>

Sq(a) == a * a

\* Squared Euclidean distance of two points.
Dist2(p, q) == Sq(p[1] - q[1]) + Sq(p[2] - q[2]) + Sq(p[3] - q[3])

\* Squared distance of the (x, y) projections.
HDist2(p, q) == Sq(p[1] - q[1]) + Sq(p[2] - q[2])

\* KDTree.find(co): the vertex nearest to co in 3-D; a tie goes to the vertex
\* inserted first; an empty tree answers None.
Find(tree, co) ==
    IF Len(tree) = 0 THEN NoVertex
    ELSE LET i == CHOOSE i \in 1..Len(tree) :
                    \A j \in 1..Len(tree) :
                        \/ Dist2(tree[j], co) > Dist2(tree[i], co)
                        \/ Dist2(tree[j], co) = Dist2(tree[i], co) /\ j >= i
         IN tree[i]

\* The draws of np.random.uniform(0, self._dig).
Draws == 0..(Dig - 1)

\* -------------------------------------------------------- height resolver

\* A resolver that returns right after the redraw, without the recursive
\* re-check.
FindHeightStepNoRecheck(tree, location, u) ==
    LET closest_vertex == Find(tree, location)
    IN  IF /\ location[3] > closest_vertex[3] - Dig
           /\ location[3] < closest_vertex[3]
        THEN [ret |-> TRUE, redraw |-> FALSE, location |-> location]
        ELSE [ret |-> TRUE, redraw |-> TRUE,
              location |-> <<location[1], location[2], closest_vertex[3] - u>>]

\* A resolver whose band test admits z equal to the vertex height.
FindHeightStepClosedBand(tree, location, u) ==
    LET closest_vertex == Find(tree, location)
    IN  IF /\ location[3] > closest_vertex[3] - Dig
           /\ location[3] <= closest_vertex[3]
        THEN [ret |-> TRUE, redraw |-> FALSE, location |-> location]
        ELSE [ret |-> FALSE, redraw |-> TRUE,
              location |-> <<location[1], location[2], closest_vertex[3] - u>>]

\* A resolver that redraws z above the vertex instead of below it.
FindHeightStepAbove(tree, location, u) ==
    LET closest_vertex == Find(tree, location)
    IN  IF /\ location[3] > closest_vertex[3] - Dig
           /\ location[3] < closest_vertex[3]
        THEN [ret |-> TRUE, redraw |-> FALSE, location |-> location]
        ELSE [ret |-> FALSE, redraw |-> TRUE,
              location |-> <<location[1], location[2], closest_vertex[3] + u>>]

\* One activation of _find_height on `location` with draw u: either it
\* returns the location, or it sets z and calls itself again.
FindHeightStep(tree, location, u) ==
    LET closest_vertex == Find(tree, location)
    IN  IF /\ location[3] > closest_vertex[3] - Dig
           /\ location[3] < closest_vertex[3]
        THEN [ret |-> TRUE, redraw |-> FALSE, location |-> location]
        ELSE [ret |-> FALSE, redraw |-> TRUE,
              location |-> <<location[1], location[2], closest_vertex[3] - u>>]

\* _find_height on an empty landscape: closest_vertex is None and the
\* subscript raises.
FindHeightError ==
    /\ hpc = "call"
    /\ Len(terrain) = 0
    /\ hpc' = "error"
    /\ UNCHANGED <<terrain, loc, redrawn>>

\* One activation of _find_height.
FindHeight(u) ==
    /\ hpc = "call"
    /\ Len(terrain) > 0
    /\ LET r == FindHeightStep(terrain, loc, u)
       IN  /\ loc' = r.location
           /\ hpc' = IF r.ret THEN "done" ELSE "call"
           /\ redrawn' = (redrawn \/ r.redraw)
    /\ UNCHANGED terrain

\* The variables of the resolver applied on its own, when it is not.
ResolverAloneIdle ==
    /\ app = 0
    /\ start = NoVertex
    /\ first = NoVertex

\* ------------------------------------------------------ random scattering

\* self._init_height as set by BaseTreeGrow.__init__: 15, with self._dig 0.1.
InitHeightDefault == 150 * Dig

\* The scattering variables when no scattering runs.
ScatterIdle ==
    /\ avoid = <<>>
    /\ trees = <<>>
    /\ seedTree = <<>>
    /\ number = 0
    /\ spc = "idle"
    /\ candidate = NoVertex

\* A file that does not exist, an empty file, and what json.dump(records)
\* writes.
NoFile == [state |-> "absent", records |-> <<>>]
EmptyFile == [state |-> "empty", records |-> <<>>]
JsonFile(records) == [state |-> "json", records |-> records]

\* render_type left at its default None, and a list of types given.
NoneGiven == [none |-> TRUE, types |-> {}]
TypesGiven(types) == [none |-> FALSE, types |-> types]

\* camera_clearance: not configured, a float, or a list [lo, hi].
NoClearance == [kind |-> "none", lo |-> 0, hi |-> 0]
ScalarClearance(c) == [kind |-> "scalar", lo |-> c, hi |-> c]
RangeClearance(lo, hi) == [kind |-> "range", lo |-> lo, hi |-> hi]

\* camera_floor: not configured, or a height.
NoFloor == [given |-> FALSE, z |-> 0]
FloorAt(z) == [given |-> TRUE, z |-> z]

\* The camera sampling variables when no camera is being sampled.
CameraIdle ==
    /\ copts = [camera_clearance |-> NoClearance, camera_floor |-> NoFloor,
                camera_theta |-> FALSE]
    /\ csphere = NoVertex
    /\ cloc = NoVertex
    /\ cpc = "idle"

\* The variables of segment when it is not running.
SegmentIdle ==
    /\ snumber = 0
    /\ pieces = 0
    /\ res = <<>>
    /\ segArgs = [number |-> 0, pieces |-> 0]
    /\ segpc = "idle"

\* An optional argument or option: left out (None), or given with a value.
NotGiven == [given |-> FALSE]
Given(v) == [given |-> TRUE, v |-> v]

\* The variables of BoundingSphere.find when it is not running.
SphereIdle ==
    /\ objects = <<>>
    /\ bcentre = NotGiven
    /\ sphere = NotGiven
    /\ bpc = "idle"

\* The variables of Scale.write_groups when it is not running.
WriteGroupsIdle ==
    /\ gfile = NoFile
    /\ gfile0 = NoFile
    /\ wdata = <<>>
    /\ wargs = NotGiven
    /\ wpc = "idle"

\* The variables of the camera dispatch and of the line-mode camera when
\* no camera is sampled through them.
LineIdle ==
    /\ rconf = NotGiven
    /\ spheres = {}
    /\ angleY = NotGiven
    /\ lloc = NoVertex
    /\ lrot = NotGiven
    /\ rejected = FALSE
    /\ accepted = NotGiven
    /\ rpc = "idle"

\* The variables of the utilities when none of them runs.
\* The variables of Generate.grow_trees when it is not run.
GrowAllIdle ==
    /\ treesFile = <<>>
    /\ allLocations = <<>>
    /\ scene = <<>>
    /\ key = 0
    /\ run = 0
    /\ kpc = "idle"

\* The variables of Textures when no Textures object is used.
TexturesIdle ==
    /\ textures = <<>>
    /\ groups = <<>>
    /\ tlog = <<>>
    /\ glog = <<>>
    /\ material = <<>>
    /\ xpc = "idle"

UtilIdle ==
    /\ SegmentIdle
    /\ SphereIdle
    /\ WriteGroupsIdle
    /\ LineIdle
    /\ GrowAllIdle
    /\ TexturesIdle

\* The variables of Generate.run when no run is going on.
GenerateIdle ==
    /\ outFile = NoFile
    /\ fileWrites = 0
    /\ pointCalls = 0
    /\ data = <<>>
    /\ images = {}
    /\ rlog = <<>>
    /\ gargs = [size |-> 0, all_levels |-> FALSE, render_type |-> NoneGiven]
    /\ gi = 0
    /\ gl = 0
    /\ gpc = "idle"
    /\ outFile0 = NoFile
    /\ images0 = {}

\* The targeted placement variables when no targeted placement runs.
TargetIdle ==
    /\ locations = <<>>
    /\ instances = <<>>
    /\ nprev = 0
    /\ ti = 0
    /\ tpc = "idle"
    /\ targets0 = <<>>
    /\ instances0 = <<>>

\* _found_clearing raises: a KD tree without vertices answers None, and the
\* subscript closest_avoid[2] or closest_landscape[2] fails.
FoundClearingRaises(landscape, obstacles) ==
    Len(landscape) = 0 \/ Len(obstacles) = 0

\* _found_clearing(location): no obstacle vertex above the nearest terrain
\* vertex within the clearance horizontally, and no tree of self.trees
\* within the clearance in 3-D.
FoundClearing(landscape, obstacles, others, location) ==
    LET closest_landscape == Find(landscape, location)
        closest_avoid == Find(obstacles, location)
    IN  /\ ~(/\ closest_avoid[3] > closest_landscape[3]
             /\ HDist2(location, closest_avoid) < Sq(Clearance))
        /\ \A k \in 1..Len(others) :
              ~(Dist2(location, others[k]) < Sq(Clearance))

\* The translations np.random.exponential(scale) * (cos, sin, 0) can give,
\* on the grid.
ScatterOffsets == {<<dx, dy, 0>> : dx \in (0 - Clearance)..Clearance, dy \in 0..1}

Plus(p, q) == <<p[1] + q[1], p[2] + q[2], p[3] + q[3]>>

\* grow_trees(number, seed_tree) is entered: with number 0 it returns the
\* list, otherwise it goes on to grow_tree(seed_tree[-1]).
GrowTreesEnter ==
    /\ spc = "call"
    /\ spc' = IF number = 0 THEN "done" ELSE "draw"
    /\ UNCHANGED <<avoid, trees, seedTree, number, initHeight, candidate>>
    /\ UNCHANGED hvars

\* Every tree is grown from the first element of the list.
ParentOfFirst(seed_tree) == seed_tree[1]

\* seed_tree[-1], the parent grow_trees hands to grow_tree.
ParentOf(seed_tree) == seed_tree[Len(seed_tree)]

\* One round of the while loop of grow_tree: draw a translation from the
\* parent, test the clearing; on success hand the location, with z set to
\* self._init_height, to _find_height.
GrowTreeDraw(translate) ==
    /\ spc = "draw"
    /\ LET parent == ParentOf(seedTree)
           location == Plus(translate, parent)
       IN  IF FoundClearingRaises(terrain, avoid)
           THEN /\ spc' = "error"
                /\ UNCHANGED <<hvars, candidate>>
           ELSE IF FoundClearing(terrain, avoid, trees, location)
           THEN /\ spc' = "height"
                /\ candidate' = location
                /\ loc' = <<location[1], location[2], initHeight>>
                /\ hpc' = "call"
                /\ redrawn' = FALSE
                /\ UNCHANGED terrain
           ELSE /\ spc' = "draw"
                /\ UNCHANGED <<hvars, candidate>>
    /\ UNCHANGED <<avoid, trees, seedTree, number, initHeight>>

\* The rest of grow_tree and of grow_trees once _find_height has returned:
\* remember the height, duplicate the parent at the location, add the new
\* tree to self.trees and to seed_tree, and call grow_trees(number - 1).
GrowTreePlace ==
    /\ spc = "height"
    /\ hpc = "done"
    /\ initHeight' = loc[3]
    /\ trees' = Append(trees, loc)
    /\ seedTree' = Append(seedTree, loc)
    /\ number' = number - 1
    /\ spc' = "call"
    /\ hpc' = "idle"
    /\ UNCHANGED <<avoid, candidate, terrain, loc, redrawn>>

\* The landscapes scattering is run on: one vertex, and a step of two.
ScatterTerrains ==
    { <<<<0, 0, Dig>>>>,
      <<<<0, 0, Dig>>, <<Clearance, 0, 2 * Dig>>>> }

\* The obstacle vertices: none, one below the terrain, one above it, and
\* an object with one vertex at the height of the seed, the clearance away
\* from where a candidate can be, and one high above that place.
ScatterObstacles ==
    { <<>>, <<<<0 - Clearance, 0, 0>>>>, <<<<0 - Clearance, 0, 3 * Dig>>>>,
      <<<<2 * Clearance, 0, Dig - 1>>, <<Clearance, 0, 2 * Dig>>>> }

\* The seed instance stands at the origin, dug into the terrain.
SeedLocation == <<0, 0, Dig - 1>>

InitScatter ==
    /\ terrain \in ScatterTerrains
    /\ avoid \in ScatterObstacles
    /\ trees = <<SeedLocation>>
    /\ seedTree = <<SeedLocation>>
    /\ number \in 0..MaxNumber
    /\ initHeight = InitHeightDefault
    /\ spc = "call"
    /\ candidate = NoVertex
    /\ loc = SeedLocation
    /\ hpc = "idle"
    /\ redrawn = FALSE
    /\ ResolverAloneIdle
    /\ TargetIdle
    /\ GenerateIdle
    /\ CameraIdle
    /\ UtilIdle

NextScatter ==
    \/ GrowTreesEnter /\ UNCHANGED <<avars, tvars, gvars, cvars, uvars>>
    \/ \E t \in ScatterOffsets : GrowTreeDraw(t) /\ UNCHANGED <<avars, tvars, gvars, cvars, uvars>>
    \/ \E u \in Draws :
          FindHeight(u) /\ UNCHANGED <<avars, initHeight, svars, tvars, gvars, cvars, uvars>>
    \/ GrowTreePlace /\ UNCHANGED <<avars, tvars, gvars, cvars, uvars>>

SpecScatter == InitScatter /\ [][NextScatter]_vars

\* The instances the running grow_trees call has placed.
Placed == {k \in 1..Len(seedTree) : k > 1}

\* C1: when grow_trees has returned, any two instances placed during the
\* call are at least the clearance apart horizontally.
C1_HorizontalClearance ==
    spc = "done" =>
        \A i, j \in Placed :
            i # j => HDist2(seedTree[i], seedTree[j]) >= Sq(Clearance)

\* C20: no candidate is accepted while some obstacle vertex lies within the
\* clearance of it horizontally and is higher than the terrain vertex
\* nearest the candidate.
C20_ObstacleRule ==
    candidate # NoVertex =>
        ~\E k \in 1..Len(avoid) :
            /\ HDist2(candidate, avoid[k]) < Sq(Clearance)
            /\ avoid[k][3] > Find(terrain, candidate)[3]

\* C27: in a scene without obstacle vertices no round of the placement
\* loop raises: the obstacle check is skipped and the candidate is decided
\* by the clearance to the trees alone.
C27_NoObstaclesNoError ==
    [][(Len(avoid) = 0 /\ spc = "draw") =>
          /\ spc' # "error"
          /\ spc' = "height" =>
                \A k \in 1..Len(trees) :
                   ~(Dist2(candidate', trees[k]) < Sq(Clearance))]_vars

\* C26: grow_trees(number, seed_tree) keeps the elements the list has,
\* appends one instance for each unit by which number goes down and has
\* returned only with number at 0, so the list is extended by exactly
\* `number` instances; an accepted candidate is a translation away from
\* the last element of the list at that moment; and whenever a candidate
\* is about to be drawn every element of the list is in self.trees.
C26_GrowsExactlyNumber ==
    [][/\ Len(seedTree') + number' = Len(seedTree) + number
       /\ \A k \in 1..Len(seedTree) : seedTree'[k] = seedTree[k]
       /\ spc' = "done" => number' = 0
       /\ (spc = "draw" /\ spc' = "height") =>
              \E t \in ScatterOffsets :
                 candidate' = Plus(t, seedTree[Len(seedTree)])
       /\ spc' = "draw" =>
              \A k \in 1..Len(seedTree') :
                 \E l \in 1..Len(trees') : trees'[l] = seedTree'[k]]_vars

\* grow_trees has returned a list with two new instances, the second
\* grown from the first of them, which stands away from the seed.
C26_Witness ==
    /\ spc = "done"
    /\ Len(seedTree) = 3
    /\ HDist2(seedTree[2], seedTree[1]) > 0

\* ----------------------------------------------------- targeted placement

\* The draws of np.random.uniform(0, 2*np.pi) for the yaw, on a grid.
Yaws == {0, 1}

\* A target is resolved anew whatever its `fixed` entry says.
NeedsResolveAlways(record) == TRUE

\* `not location.get("fixed")`: the target still has to be resolved.
NeedsResolve(record) == ~record.fixed

\* grow_trees(key) up to the loop: previous_trees[0] gives the initial
\* height; with no instance of the key the subscript raises IndexError.
TargetEnter ==
    /\ tpc = "call"
    /\ IF Len(instances) = 0
       THEN /\ tpc' = "error"
            /\ UNCHANGED <<initHeight, nprev, ti>>
       ELSE /\ tpc' = "loop"
            /\ initHeight' = instances[1].location[3]
            /\ nprev' = Len(instances)
            /\ ti' = 1
    /\ UNCHANGED <<locations, instances, targets0, instances0>>
    /\ UNCHANGED hvars

\* A duplicate is made for every target, paired with an instance or not.
PairedInstancesDuplicating == Append(instances, instances[nprev])

\* The duplicates are made of previous_trees[0].
PairedInstancesOfFirst ==
    IF ti > nprev THEN Append(instances, instances[1]) ELSE instances

\* The instance paired with target ti: previous_trees[ti], or a duplicate of
\* previous_trees[-1] appended to the scene when the list is exhausted.
PairedInstances ==
    IF ti > nprev THEN Append(instances, instances[nprev]) ELSE instances

\* One round of the zip_longest loop of grow_trees(key).  Past the last
\* target the loop breaks and the call returns.  A target that needs no
\* resolving is applied to its instance; one that does has its z set to
\* self._init_height and goes to _find_height.
TargetStep ==
    /\ tpc = "loop"
    /\ IF ti > Len(locations)
       THEN /\ tpc' = "done"
            /\ UNCHANGED <<locations, instances, ti>>
            /\ UNCHANGED hvars
       ELSE IF NeedsResolve(locations[ti])
       THEN /\ tpc' = "height"
            /\ instances' = PairedInstances
            /\ loc' = <<locations[ti].location[1], locations[ti].location[2],
                        initHeight>>
            /\ locations' = [locations EXCEPT ![ti].location = loc']
            /\ hpc' = "call"
            /\ redrawn' = FALSE
            /\ UNCHANGED <<terrain, ti>>
       ELSE /\ tpc' = "loop"
            /\ instances' = [PairedInstances EXCEPT
                                ![ti].location = locations[ti].location,
                                ![ti].rotation = locations[ti].rotation]
            /\ ti' = ti + 1
            /\ UNCHANGED locations
            /\ UNCHANGED hvars
    /\ UNCHANGED <<initHeight, nprev, targets0, instances0>>

\* The resolved target is stored without the `fixed` mark.
ResolvedRecordUnmarked(location, yaw) ==
    [location |-> location, rotation |-> <<0, 0, yaw>>, fixed |-> FALSE]

\* The record of a target once resolved: the location _find_height
\* returned, the drawn yaw, and fixed = True.
ResolvedRecord(location, yaw) ==
    [location |-> location, rotation |-> <<0, 0, yaw>>, fixed |-> TRUE]

\* The rest of the round once _find_height has returned: store the
\* location, draw the yaw, mark the target fixed, and apply it to the
\* instance.
TargetResolved(yaw) ==
    /\ tpc = "height"
    /\ hpc = "done"
    /\ locations' = [locations EXCEPT ![ti] = ResolvedRecord(loc, yaw)]
    /\ instances' = [instances EXCEPT
                        ![ti].location = locations'[ti].location,
                        ![ti].rotation = locations'[ti].rotation]
    /\ ti' = ti + 1
    /\ tpc' = "loop"
    /\ hpc' = "idle"
    /\ UNCHANGED <<terrain, loc, redrawn, initHeight, nprev, targets0,
                   instances0>>

\* Target records not yet resolved: (x, y) given, no rotation yet.
UnfixedRecords ==
    {[location |-> <<x, 0, 0>>, rotation |-> <<0, 0, 0>>, fixed |-> FALSE] :
        x \in 0..1}

\* Target records resolved by an earlier run, as read from the file; the
\* stored height need not be what the resolver would give now.
FixedRecords ==
    { [location |-> <<0, 0, 1>>, rotation |-> <<0, 0, 2>>, fixed |-> TRUE],
      [location |-> <<1, 0, 3 * Dig>>, rotation |-> <<0, 0, 3>>, fixed |-> TRUE] }

TargetLists ==
    UNION {[1..n -> UnfixedRecords \cup FixedRecords] : n \in 0..MaxTargets}

\* The instances of the key that exist before the call: objects with a
\* location, a rotation and the object data a linked duplicate shares.
ExistingInstances ==
    { [location |-> <<0, 0, Dig - 1>>, rotation |-> <<0, 0, 0>>,
       data |-> "mesh"],
      [location |-> <<1, 0, 2 * Dig - 1>>, rotation |-> <<0, 0, 1>>,
       data |-> "mesh.001"] }

InstanceLists ==
    UNION {[1..n -> ExistingInstances] : n \in 0..MaxInstances}

InitTarget ==
    /\ terrain \in ScatterTerrains
    /\ locations \in TargetLists
    /\ instances \in InstanceLists
    /\ targets0 = locations
    /\ instances0 = instances
    /\ nprev = 0
    /\ ti = 0
    /\ tpc = "call"
    /\ initHeight = InitHeightDefault
    /\ loc = NoVertex
    /\ hpc = "idle"
    /\ redrawn = FALSE
    /\ ResolverAloneIdle
    /\ ScatterIdle
    /\ GenerateIdle
    /\ CameraIdle
    /\ UtilIdle

NextTarget ==
    \/ TargetEnter /\ UNCHANGED <<avars, svars, gvars, cvars, uvars>>
    \/ TargetStep /\ UNCHANGED <<avars, svars, gvars, cvars, uvars>>
    \/ \E u \in Draws :
          FindHeight(u) /\ UNCHANGED <<avars, initHeight, svars, tvars, gvars, cvars, uvars>>
    \/ \E yaw \in Yaws : TargetResolved(yaw) /\ UNCHANGED <<avars, svars, gvars, cvars, uvars>>

SpecTarget == InitTarget /\ [][NextTarget]_vars

\* C2: a target that is fixed when grow_trees is called is never handed to
\* the resolver; when the call has returned its record is what it was and
\* its paired instance has exactly the stored location and rotation.
C2_FixedUntouched ==
    /\ tpc = "height" => ~targets0[ti].fixed
    /\ \A i \in 1..Len(targets0) :
          targets0[i].fixed =>
              /\ locations[i] = targets0[i]
              /\ tpc = "done" =>
                    /\ instances[i].location = targets0[i].location
                    /\ instances[i].rotation = targets0[i].rotation

\* A call has returned that paired a fixed target with a duplicated
\* instance after resolving an unfixed one.
C2_Witness ==
    /\ tpc = "done"
    /\ \E i, j \in 1..Len(targets0) :
          /\ i < j
          /\ ~targets0[i].fixed
          /\ targets0[j].fixed
          /\ j > nprev

\* C12: with fewer targets than instances of the key, the instances beyond
\* the end of the target list keep their location and rotation, and no
\* instance is created or removed.
C12_LeftoverUntouched ==
    Len(targets0) < Len(instances0) =>
        /\ Len(instances) = Len(instances0)
        /\ \A i \in (Len(targets0) + 1)..Len(instances0) :
              instances[i] = instances0[i]

\* A call with one target and two instances has returned and has moved
\* the first instance.
C12_Witness ==
    /\ tpc = "done"
    /\ Len(targets0) = 1
    /\ Len(instances0) = 2
    /\ instances[1] # instances0[1]

\* The larger of two numbers.
Max(a, b) == IF a > b THEN a ELSE b

\* C13: with T targets and E >= 1 instances, when grow_trees(key) has
\* returned there are max(T, E) instances, the i-th instance has the
\* location and rotation of the i-th target for every target, and every
\* instance beyond the E-th is a duplicate of the E-th as it existed
\* before the call: it has its object data.
C13_PositionalPairing ==
    (tpc = "done" /\ Len(instances0) >= 1) =>
        /\ Len(instances) = Max(Len(targets0), Len(instances0))
        /\ \A i \in 1..Len(locations) :
              /\ instances[i].location = locations[i].location
              /\ instances[i].rotation = locations[i].rotation
        /\ \A i \in (Len(instances0) + 1)..Len(instances) :
              instances[i].data = instances0[Len(instances0)].data

\* A call has returned that had to create an instance, from two instances
\* with different object data.
C13_Witness ==
    /\ tpc = "done"
    /\ Len(instances0) = 2
    /\ Len(targets0) > Len(instances0)
    /\ instances0[1].data # instances0[2].data

\* The targets before target i that the call has resolved.
ResolvedBefore(i) == {j \in 1..(i - 1) : ~targets0[j].fixed}

\* C25: when a target is handed to the resolver, the height it starts from
\* is the height resolved for the previously resolved target, or the height
\* of the first existing instance if none was resolved before it.
C25_StartsFromPrevious ==
    [][(tpc = "loop" /\ tpc' = "height") =>
          loc'[3] = IF ResolvedBefore(ti) = {}
                    THEN instances0[1].location[3]
                    ELSE LET S == ResolvedBefore(ti)
                             j == CHOOSE k \in S : \A l \in S : l <= k
                         IN  locations[j].location[3]]_vars

\* ------------------------------------- Generate.grow_trees and grow_all

\* grow_all calls grow_trees(key) for the k-th key: the records and the
\* instances of the key are the ones the call works on.
GrowAllCall(k, records, objs) ==
    /\ key' = k
    /\ locations' = records[k]
    /\ instances' = objs[k]
    /\ targets0' = records[k]
    /\ instances0' = objs[k]
    /\ nprev' = 0
    /\ ti' = 0
    /\ tpc' = "call"

\* Generate.grow_trees up to the first grow_trees(key): the placement file
\* is loaded, a TreeGrow is made of it, and grow_all starts on the keys.
GrowTreesLoad ==
    /\ kpc = "load"
    /\ allLocations' = treesFile
    /\ initHeight' = InitHeightDefault
    /\ IF Len(treesFile) = 0
       THEN /\ kpc' = "done"
            /\ UNCHANGED <<key, tvars>>
       ELSE /\ kpc' = "keys"
            /\ GrowAllCall(1, treesFile, scene)
    /\ UNCHANGED <<treesFile, scene, run>>
    /\ UNCHANGED hvars

\* grow_trees(key) has returned: its list is self.locations[key] and its
\* instances are in the scene.  grow_all goes on to the next key; after
\* the last one it returns self.locations, which Generate.grow_trees dumps
\* to the placement file.
GrowAllNext ==
    /\ kpc = "keys"
    /\ tpc = "done"
    /\ allLocations' = [allLocations EXCEPT ![key] = locations]
    /\ scene' = [scene EXCEPT ![key] = instances]
    /\ IF key < Len(allLocations)
       THEN /\ GrowAllCall(key + 1, allLocations', scene')
            /\ UNCHANGED <<treesFile, kpc>>
       ELSE /\ treesFile' = allLocations'
            /\ kpc' = "done"
            /\ tpc' = "idle"
            /\ UNCHANGED <<key, locations, instances, targets0, instances0,
                           nprev, ti>>
    /\ UNCHANGED <<run, initHeight>>
    /\ UNCHANGED hvars

\* Generate.run is started again on the same scene and placement file.
GrowTreesAgain ==
    /\ kpc = "done"
    /\ run < MaxRuns
    /\ run' = run + 1
    /\ kpc' = "load"
    /\ UNCHANGED <<treesFile, allLocations, scene, key, initHeight>>
    /\ UNCHANGED <<hvars, tvars>>

\* The placement files with keys: two keys, the first with two targets, the second
\* with one or none.
PlacementFiles ==
    {<<a, b>> : a \in {l \in TargetLists : Len(l) = 2},
                b \in {l \in TargetLists : Len(l) <= 1}}

\* The scenes: one instance of the first key, up to two of the second.
Scenes ==
    {<<a, b>> : a \in {l \in InstanceLists : Len(l) = 1},
                b \in {l \in InstanceLists : Len(l) <= 2}}

InitGrowAll ==
    /\ terrain \in ScatterTerrains
    /\ \/ treesFile \in PlacementFiles /\ scene \in Scenes
       \/ treesFile = <<>> /\ scene = <<>>
    /\ allLocations = <<>>
    /\ key = 0
    /\ run = 1
    /\ kpc = "load"
    /\ initHeight = InitHeightDefault
    /\ loc = NoVertex
    /\ hpc = "idle"
    /\ redrawn = FALSE
    /\ TargetIdle
    /\ ResolverAloneIdle
    /\ ScatterIdle
    /\ GenerateIdle
    /\ CameraIdle
    /\ SegmentIdle
    /\ SphereIdle
    /\ WriteGroupsIdle
    /\ LineIdle
    /\ TexturesIdle

notkvars == <<avars, svars, gvars, cvars, pvars, bvars, wvars, lvars, xvars>>

NextGrowAll ==
    \/ GrowTreesLoad /\ UNCHANGED notkvars
    \/ TargetEnter /\ UNCHANGED <<notkvars, kvars>>
    \/ TargetStep /\ UNCHANGED <<notkvars, kvars>>
    \/ \E u \in Draws :
          FindHeight(u) /\ UNCHANGED <<notkvars, kvars, initHeight, tvars>>
    \/ \E yaw \in Yaws : TargetResolved(yaw) /\ UNCHANGED <<notkvars, kvars>>
    \/ GrowAllNext /\ UNCHANGED notkvars
    \/ GrowTreesAgain /\ UNCHANGED notkvars

SpecGrowAll == InitGrowAll /\ [][NextGrowAll]_vars

\* C29: when Generate.grow_trees has returned, every target record of
\* every key is fixed, the i-th instance of the key has the location and
\* rotation of its i-th record, and the placement file holds these
\* records; a later run hands no target to the resolver and leaves the
\* records as the file has them.
C29_AllFixedAndWrittenBack ==
    /\ kpc = "done" =>
          /\ treesFile = allLocations
          /\ \A k \in 1..Len(allLocations) :
                \A i \in 1..Len(allLocations[k]) :
                   /\ allLocations[k][i].fixed
                   /\ scene[k][i].location = allLocations[k][i].location
                   /\ scene[k][i].rotation = allLocations[k][i].rotation
    /\ run > 1 =>
          /\ tpc # "height"
          /\ kpc # "load" => allLocations = treesFile

\* A second run has returned on a file with a record whose yaw the first
\* run drew.
C29_Witness ==
    /\ run = 2
    /\ kpc = "done"
    /\ \E k \in 1..Len(treesFile) :
          \E i \in 1..Len(treesFile[k]) : treesFile[k][i].rotation[3] \in Yaws

\* ------------------------------------------------------------ Generate.run

RECURSIVE DecimalDigits(_)
\* The decimal digits of a natural number, most significant first.
DecimalDigits(i) ==
    IF i < 10 THEN <<i>> ELSE Append(DecimalDigits(i \div 10), i % 10)

RECURSIVE PadZeros(_, _)
\* Zeros put in front of a digit string until it has the width.
PadZeros(digits, width) ==
    IF Len(digits) >= width THEN digits
    ELSE PadZeros(<<0>> \o digits, width)

\* "{:03d}".format(i) for i >= 0: the digits of i, zero-padded to width 3.
Format03d(i) == PadZeros(DecimalDigits(i), 3)

\* The sun and camera setups point() can return.
Points == {1, 2}

\* The image file names of a sample: "{seq}.vis.png",
\* "{seq}.sem.{level}.png" and "{seq}.dep.exr".
VisualPath(seq) == <<seq, "vis", 0>>
SemanticPath(seq, level) == <<seq, "sem", level>>
DepthPath(seq) == <<seq, "dep", 0>>

\* `levels = range(3) if all_levels else [2]`.
Levels(all_levels) == IF all_levels THEN <<0, 1, 2>> ELSE <<2>>

AllRenderTypes == {"visual", "semantic", "depth"}

\* `if render_type is None: render_type = ["visual", "semantic", "depth"]`.
RenderTypes(render_type) ==
    IF render_type.none THEN AllRenderTypes ELSE render_type.types

\* The file test is dropped: every image is rendered.
IsFileNever(path, files) == FALSE

\* os.path.isfile(path).
IsFile(path, files) == path \in files

\* The sample file is taken as empty whatever it holds.
GetSizeZero(file) == 0

\* os.path.getsize(out_path) of a file that exists: 0 for an empty file;
\* a file written by json.dump holds at least "{}".
GetSize(file) == IF file.state = "empty" THEN 0 ELSE 2 + Len(file.records)

\* The depth renders are made before the semantic ones.
PhaseAfterDepthFirst(phase) ==
    IF phase = "visual" THEN "depth"
    ELSE IF phase = "depth" THEN "semantic"
    ELSE "done"

\* The order of the three blocks of run: the visual loop, then the
\* semantic loops, then the depth loop, then the return.
PhaseAfter(phase) ==
    IF phase = "visual" THEN "semantic"
    ELSE IF phase = "semantic" THEN "depth"
    ELSE "done"

\* run up to the render loops, with no trees file configured.  A missing
\* sample file makes os.path.getsize raise; a non-empty one is loaded; for
\* an empty one `size` points are drawn and written to the file.
RunLoadOrGenerate ==
    /\ gpc = "call"
    /\ IF outFile.state = "absent"
       THEN /\ gpc' = "error"
            /\ UNCHANGED <<outFile, fileWrites, pointCalls, data>>
       ELSE IF GetSize(outFile) # 0
       THEN /\ gpc' = "visual"
            /\ data' = outFile.records
            /\ UNCHANGED <<outFile, fileWrites, pointCalls>>
       ELSE \E pts \in [1..gargs.size -> Points] :
            /\ gpc' = "visual"
            /\ data' = [i \in 1..gargs.size |->
                            [seq |-> Format03d(i - 1), point |-> pts[i]]]
            /\ pointCalls' = pointCalls + gargs.size
            /\ outFile' = JsonFile(data')
            /\ fileWrites' = fileWrites + 1
    /\ gi' = 1
    /\ gl' = 1
    /\ UNCHANGED <<images, rlog, gargs, outFile0, images0>>

\* One round of a loop over data.items() for the file `path`: an existing
\* file is skipped, a missing one is rendered, which writes it.
RenderUnlessFile(path) ==
    IF IsFile(path, images)
    THEN UNCHANGED <<images, rlog>>
    ELSE /\ images' = images \cup {path}
         /\ rlog' = Append(rlog, path)

\* The visual loop: skipped as a whole when "visual" is not asked for.
RunVisual ==
    /\ gpc = "visual"
    /\ IF "visual" \notin RenderTypes(gargs.render_type) \/ gi > Len(data)
       THEN /\ gpc' = PhaseAfter("visual")
            /\ gi' = 1
            /\ UNCHANGED <<images, rlog>>
       ELSE /\ RenderUnlessFile(VisualPath(data[gi].seq))
            /\ gi' = gi + 1
            /\ UNCHANGED gpc
    /\ UNCHANGED <<outFile, fileWrites, pointCalls, data, gargs, gl,
                   outFile0, images0>>

\* The semantic loops: over the levels, and for each level over the data.
RunSemantic ==
    /\ gpc = "semantic"
    /\ IF \/ "semantic" \notin RenderTypes(gargs.render_type)
          \/ gl > Len(Levels(gargs.all_levels))
       THEN /\ gpc' = PhaseAfter("semantic")
            /\ gi' = 1
            /\ UNCHANGED <<images, rlog, gl>>
       ELSE IF gi > Len(data)
       THEN /\ gl' = gl + 1
            /\ gi' = 1
            /\ UNCHANGED <<images, rlog, gpc>>
       ELSE /\ RenderUnlessFile(
                   SemanticPath(data[gi].seq, Levels(gargs.all_levels)[gl]))
            /\ gi' = gi + 1
            /\ UNCHANGED <<gpc, gl>>
    /\ UNCHANGED <<outFile, fileWrites, pointCalls, data, gargs,
                   outFile0, images0>>

\* The depth loop, after which run returns.
RunDepth ==
    /\ gpc = "depth"
    /\ IF "depth" \notin RenderTypes(gargs.render_type) \/ gi > Len(data)
       THEN /\ gpc' = PhaseAfter("depth")
            /\ gi' = 1
            /\ UNCHANGED <<images, rlog>>
       ELSE /\ RenderUnlessFile(DepthPath(data[gi].seq))
            /\ gi' = gi + 1
            /\ UNCHANGED gpc
    /\ UNCHANGED <<outFile, fileWrites, pointCalls, data, gargs, gl,
                   outFile0, images0>>

\* A point as found in a sample file of an earlier run.
StoredPoint == 3

\* The sample files run is called on: none, an empty one, "{}", and files
\* of one or two records, one of them keyed other than by "{:03d}".
SampleFiles ==
    { NoFile, EmptyFile, JsonFile(<<>>),
      JsonFile(<<[seq |-> <<0, 0, 0>>, point |-> StoredPoint]>>),
      JsonFile(<<[seq |-> <<7>>, point |-> StoredPoint]>>),
      JsonFile(<<[seq |-> <<0, 0, 0>>, point |-> StoredPoint],
                 [seq |-> <<0, 0, 1>>, point |-> 1]>>) }

\* The image files of the samples 000, 001 and 7.
ImagePaths ==
    UNION { {VisualPath(q), DepthPath(q)} \cup {SemanticPath(q, l) : l \in 0..2} :
            q \in {<<0, 0, 0>>, <<0, 0, 1>>, <<7>>} }

\* The image files left by earlier runs: none, any single one, or all of
\* sample 000.
ImageSets ==
    {{}} \cup {{f} : f \in ImagePaths}
         \cup {{f \in ImagePaths : f[1] = <<0, 0, 0>>}}

InitGenerate ==
    /\ outFile \in SampleFiles
    /\ outFile0 = outFile
    /\ images \in ImageSets
    /\ images0 = images
    /\ gargs \in [size : 0..MaxSize, all_levels : BOOLEAN,
                   render_type : {NoneGiven} \cup
                       {TypesGiven(t) : t \in SUBSET AllRenderTypes}]
    /\ fileWrites = 0
    /\ pointCalls = 0
    /\ data = <<>>
    /\ rlog = <<>>
    /\ gi = 0
    /\ gl = 0
    /\ gpc = "call"
    /\ terrain = <<>>
    /\ loc = NoVertex
    /\ hpc = "idle"
    /\ redrawn = FALSE
    /\ initHeight = InitHeightDefault
    /\ ResolverAloneIdle
    /\ ScatterIdle
    /\ TargetIdle
    /\ CameraIdle
    /\ UtilIdle

notgvars == <<hvars, avars, initHeight, svars, tvars, cvars, uvars>>

NextGenerate ==
    \/ RunLoadOrGenerate /\ UNCHANGED notgvars
    \/ RunVisual /\ UNCHANGED notgvars
    \/ RunSemantic /\ UNCHANGED notgvars
    \/ RunDepth /\ UNCHANGED notgvars

SpecGenerate == InitGenerate /\ [][NextGenerate]_vars

\* The sample file is there and holds something.
NonEmptyFile(file) == file.state = "json"

\* The image files the run was asked for, for the samples of `data`.
RequestedImages ==
    UNION { (IF "visual" \in RenderTypes(gargs.render_type)
                THEN {VisualPath(data[i].seq)} ELSE {})
            \cup (IF "semantic" \in RenderTypes(gargs.render_type)
                THEN {SemanticPath(data[i].seq, Levels(gargs.all_levels)[l]) :
                        l \in 1..Len(Levels(gargs.all_levels))}
                ELSE {})
            \cup (IF "depth" \in RenderTypes(gargs.render_type)
                THEN {DepthPath(data[i].seq)} ELSE {}) :
            i \in 1..Len(data) }

\* C3: run on a sample file that exists and is not empty uses the records
\* of the file as they are, never calls point(), whatever `size` is, and
\* does not write the file.
C3_LoadsFile ==
    NonEmptyFile(outFile0) =>
        /\ pointCalls = 0
        /\ fileWrites = 0
        /\ outFile = outFile0
        /\ gpc \notin {"call", "error"} => data = outFile0.records

\* A run on a file of two records, called with another size, has returned.
C3_Witness ==
    /\ gpc = "done"
    /\ NonEmptyFile(outFile0)
    /\ Len(outFile0.records) = 2
    /\ gargs.size # Len(outFile0.records)
    /\ Len(rlog) > 0

\* C4: run on a sample file that is absent or empty leaves the load step
\* with exactly `size` fresh records, keyed "000", "001", ..., written to
\* the file before any render starts.
C4_GeneratesAndWrites ==
    (~NonEmptyFile(outFile0) /\ gpc # "call") =>
        /\ gpc # "error"
        /\ Len(data) = gargs.size
        /\ pointCalls = gargs.size
        /\ \A i \in 1..Len(data) :
              /\ data[i].seq = Format03d(i - 1)
              /\ Len(data[i].seq) = 3
        /\ fileWrites = 1
        /\ outFile = JsonFile(data)

\* C5: a render is invoked for a requested image exactly when its file
\* does not exist when its sample is reached; no file that exists is
\* rendered again; when run returns every requested image exists.
C5_Resumption ==
    /\ \A k \in 1..Len(rlog) :
          /\ rlog[k] \notin images0
          /\ rlog[k] \in RequestedImages
          /\ \A m \in 1..Len(rlog) : rlog[m] = rlog[k] => m = k
    /\ images0 \subseteq images
    /\ gpc = "done" =>
          /\ RequestedImages \subseteq images
          /\ \A f \in RequestedImages :
                f \notin images0 => \E k \in 1..Len(rlog) : rlog[k] = f

\* A run has returned that found one requested image in place and rendered
\* another.
C5_Witness ==
    /\ gpc = "done"
    /\ \E f \in RequestedImages : f \in images0
    /\ Len(rlog) > 0

\* The place of a render in the order visual, semantic, depth.
KindRank(path) ==
    IF path[2] = "vis" THEN 0 ELSE IF path[2] = "sem" THEN 1 ELSE 2

\* C21: within one run every visual render happens before any semantic
\* render, and every semantic render before any depth render.
C21_RenderOrder ==
    \A i, j \in 1..Len(rlog) : i < j => KindRank(rlog[i]) <= KindRank(rlog[j])

\* A run has returned that rendered images of all three kinds.
C21_Witness ==
    /\ gpc = "done"
    /\ \E i, j, k \in 1..Len(rlog) :
          /\ rlog[i][2] = "vis"
          /\ rlog[j][2] = "sem"
          /\ rlog[k][2] = "dep"

\* --------------------------------------------------- sphere-mode camera

\* camera_floor is not looked at.
FloorOfTerrainOnly(closest_vertex, camera_floor) == closest_vertex[3]

\* The floor of _choose_height: the height of the closest vertex, or
\* camera_floor when that is configured and higher.
FloorOf(closest_vertex, camera_floor) ==
    IF camera_floor.given /\ camera_floor.z > closest_vertex[3]
    THEN camera_floor.z
    ELSE closest_vertex[3]

\* The retry moves the location along x as well as setting a new height.
ChooseHeightStepRedrawing(tree, opts, location, u) ==
    LET clearance == opts.camera_clearance
        floor == FloorOf(Find(tree, location), opts.camera_floor)
    IN  IF /\ location[3] > floor + clearance.lo
           /\ location[3] < floor + clearance.hi
        THEN [ret |-> TRUE, location |-> location]
        ELSE [ret |-> FALSE,
              location |-> <<location[1] + 1, location[2], floor + u>>]

\* One activation of _choose_height(location) with the draw u of
\* np.random.uniform: the location is returned if its height is strictly
\* inside the clearance band above the floor, otherwise its z is replaced
\* and the function is entered again.
ChooseHeightStep(tree, opts, location, u) ==
    LET clearance == opts.camera_clearance
        floor == FloorOf(Find(tree, location), opts.camera_floor)
    IN  IF /\ location[3] > floor + clearance.lo
           /\ location[3] < floor + clearance.hi
        THEN [ret |-> TRUE, location |-> location]
        ELSE [ret |-> FALSE,
              location |-> <<location[1], location[2], floor + u>>]

\* The height test lets a camera at exactly the clearance pass.
CheckHeightAtLeast(tree, opts, location) ==
    /\ opts.camera_clearance.kind # "none"
    /\ location[3] >= Find(tree, location)[3] + opts.camera_clearance.lo

\* _check_height(location): a clearance is configured and the location is
\* more than the clearance above the closest vertex.
CheckHeight(tree, opts, location) ==
    /\ opts.camera_clearance.kind # "none"
    /\ location[3] > Find(tree, location)[3] + opts.camera_clearance.lo

\* The draws of np.random.uniform(lo, hi): lo alone when hi is not above it.
UniformDraws(lo, hi) == IF hi > lo THEN lo..(hi - 1) ELSE {lo}

\* Whether theta is pi/2 rather than drawn from camera_theta.
HorizontalTheta(opts) ==
    opts.camera_clearance.kind = "range" \/ ~opts.camera_theta

\* distance * (sin(theta)sin(-phi), sin(theta)cos(phi), cos(theta)) on the
\* grid: with theta = pi/2 the camera is level with the centre.
CameraOffsets(opts) ==
    {<<dx, dy, dz>> : dx \in (0 - 1)..1, dy \in 0..1,
                      dz \in IF HorizontalTheta(opts) THEN {0} ELSE 0..CameraReach}

\* random_camera_sphere up to the loop: a sphere is chosen.
CameraEnter(centre) ==
    /\ cpc = "call"
    /\ csphere' = centre
    /\ cpc' = "draw"
    /\ UNCHANGED <<copts, cloc>>

\* One round of the while loop: the location is drawn; with a list
\* clearance it goes to _choose_height and the loop ends, otherwise the
\* loop ends only if _check_height passes.
CameraDraw(offset) ==
    /\ cpc = "draw"
    /\ cloc' = Plus(csphere, offset)
    /\ cpc' = IF copts.camera_clearance.kind = "range" THEN "height"
              ELSE IF CheckHeight(terrain, copts, cloc') THEN "done"
              ELSE "draw"
    /\ UNCHANGED <<copts, csphere>>

\* One activation of _choose_height; when it returns, so does
\* random_camera_sphere.
CameraChooseHeight(u) ==
    /\ cpc = "height"
    /\ LET r == ChooseHeightStep(terrain, copts, cloc, u)
       IN  /\ cloc' = r.location
           /\ cpc' = IF r.ret THEN "done" ELSE "height"
    /\ UNCHANGED <<copts, csphere>>

\* The camera configurations: clearance missing, a float, or a list; floor
\* missing, between the terrain heights, or above them.
CameraOptions ==
    [camera_clearance : {NoClearance, ScalarClearance(1), ScalarClearance(2),
                         RangeClearance(1, 3), RangeClearance(0, CameraReach)},
     camera_floor : {NoFloor, FloorAt(Dig + 1), FloorAt(2 * Dig + 1)},
     camera_theta : BOOLEAN]

\* The sphere centres of self.opts['spheres'].
SphereCentres == {<<0, 0, Dig>>, <<1, 0, 2 * Dig + 1>>}

InitCamera ==
    /\ terrain \in ScatterTerrains
    /\ copts \in CameraOptions
    /\ csphere = NoVertex
    /\ cloc = NoVertex
    /\ cpc = "call"
    /\ loc = NoVertex
    /\ hpc = "idle"
    /\ redrawn = FALSE
    /\ initHeight = InitHeightDefault
    /\ ResolverAloneIdle
    /\ ScatterIdle
    /\ TargetIdle
    /\ GenerateIdle
    /\ UtilIdle

notcvars == <<hvars, avars, initHeight, svars, tvars, gvars, uvars>>

NextCamera ==
    \/ \E centre \in SphereCentres : CameraEnter(centre) /\ UNCHANGED notcvars
    \/ \E offset \in CameraOffsets(copts) :
          CameraDraw(offset) /\ UNCHANGED notcvars
    \/ \E u \in UniformDraws(copts.camera_clearance.lo,
                              copts.camera_clearance.hi) :
          CameraChooseHeight(u) /\ UNCHANGED notcvars

SpecCamera == InitCamera /\ [][NextCamera]_vars

\* C6: with a list clearance [lo, hi] every location random_camera_sphere
\* returns has lo <= z - floor <= hi, the floor being the height of the
\* terrain vertex nearest the returned location, or camera_floor when that
\* is configured and higher.
C6_RangeClearance ==
    (cpc = "done" /\ copts.camera_clearance.kind = "range") =>
        LET nearest == Find(terrain, cloc)
            floor == IF copts.camera_floor.given
                        /\ copts.camera_floor.z > nearest[3]
                     THEN copts.camera_floor.z ELSE nearest[3]
        IN  /\ copts.camera_clearance.lo <= cloc[3] - floor
            /\ cloc[3] - floor <= copts.camera_clearance.hi

\* A location was returned whose floor is the configured camera_floor.
C6_Witness ==
    /\ cpc = "done"
    /\ copts.camera_clearance.kind = "range"
    /\ copts.camera_floor.given
    /\ copts.camera_floor.z > Find(terrain, cloc)[3]
    /\ cloc[3] # csphere[3]

\* C7: with a float clearance c every location random_camera_sphere
\* returns is more than c above the terrain vertex nearest to it, and no
\* candidate is handed to the height retry: one that fails is drawn again.
C7_ScalarClearance ==
    copts.camera_clearance.kind = "scalar" =>
        /\ cpc # "height"
        /\ cpc = "done" =>
              cloc[3] > Find(terrain, cloc)[3] + copts.camera_clearance.lo

\* A location was returned under a float clearance with theta drawn.
C7_Witness ==
    /\ cpc = "done"
    /\ copts.camera_clearance.kind = "scalar"
    /\ copts.camera_theta
    /\ cloc[3] > csphere[3]

\* C24: every activation of _choose_height leaves the x and y of the
\* location as sampled from the sphere and the chosen sphere as it was; a
\* retry changes z only.
C24_RetryChangesOnlyZ ==
    [][cpc = "height" =>
         /\ cloc'[1] = cloc[1]
         /\ cloc'[2] = cloc[2]
         /\ csphere' = csphere]_vars

\* A list clearance, and the call returned a location whose height a retry
\* has replaced (the draw is level with the sphere centre).
C24_Witness ==
    /\ copts.camera_clearance.kind = "range"
    /\ cpc = "done"
    /\ cloc[3] # csphere[3]

\* C23: without a configured camera_clearance no drawn location is
\* rejected for the lack of it: the first location drawn is returned.
C23_NoClearanceReturns ==
    (copts.camera_clearance.kind = "none" /\ cloc # NoVertex) => cpc = "done"

\* C16: with a float clearance and camera_theta missing, sphere-mode
\* sampling fails with a configuration error: it never returns a pose.
C16_ScalarNeedsTheta ==
    (copts.camera_clearance.kind = "scalar" /\ ~copts.camera_theta) =>
        cpc # "done"

\* ----------------------------------------------------- bounding sphere

\* The largest and the smallest number of a non-empty set.
MaxOf(S) == CHOOSE m \in S : \A x \in S : x <= m
MinOf(S) == CHOOSE m \in S : \A x \in S : m <= x

\* minmax(index, axis) of find, as 1 for max and 0 for min: the bit of the
\* corner index for the axis, for axis 0 xor-ed with bit 1 of the index.
IsMax(index, axis) ==
    LET is_max == (index \div (2 ^ axis)) % 2
    IN  IF axis = 0 THEN (is_max + ((index \div 2) % 2)) % 2 ELSE is_max

\* The `box` of find: for corner i and axis j the min or max, over the
\* objects, of coordinate j of each object's own i-th corner in world space.
BoxOf(objs) ==
    [i \in 1..8 |->
        [j \in 1..3 |->
            LET coords == {objs[k][i][j] : k \in 1..Len(objs)}
            IN  IF IsMax(i - 1, j - 1) = 1 THEN MaxOf(coords)
                ELSE MinOf(coords)]]

\* Coordinates are kept times 8, so that np.sum(box, axis=0)/8 is exact.
Times8(p) == <<8 * p[1], 8 * p[2], 8 * p[3]>>

\* np.sum(box, axis=0), which is 8 times the default centre.
SumOfBox(box) ==
    <<box[1][1] + box[2][1] + box[3][1] + box[4][1]
        + box[5][1] + box[6][1] + box[7][1] + box[8][1],
      box[1][2] + box[2][2] + box[3][2] + box[4][2]
        + box[5][2] + box[6][2] + box[7][2] + box[8][2],
      box[1][3] + box[2][3] + box[3][3] + box[4][3]
        + box[5][3] + box[6][3] + box[7][3] + box[8][3]>>

\* The radius is taken to the first corner only.
RadiusToFirstCorner(box, centre8) == Dist2(Times8(box[1]), centre8)

\* np.max(np.linalg.norm(box - self.centre, axis=1)), as the square of 8
\* times the radius.
RadiusOf(box, centre8) ==
    MaxOf({Dist2(Times8(box[i]), centre8) : i \in 1..8})

\* find(objects, centre): the sphere returned, with its centre times 8 and
\* its radius as the square of 8 times the radius.
FindSphere(objs, centre) ==
    LET box == BoxOf(objs)
        centre8 == IF centre.given THEN Times8(centre.v) ELSE SumOfBox(box)
    IN  [centre8 |-> centre8, radius |-> RadiusOf(box, centre8)]

\* BoundingSphere.find; without objects min() and max() of an empty list
\* raise ValueError.
SphereFind ==
    /\ bpc = "call"
    /\ IF Len(objects) = 0
       THEN /\ bpc' = "error"
            /\ UNCHANGED sphere
       ELSE /\ bpc' = "done"
            /\ sphere' = Given(FindSphere(objects, bcentre))
    /\ UNCHANGED <<objects, bcentre>>

\* bound_box of an object that spans lo..hi: its 8 corners in the order
\* Blender lists them, with matrix_world the identity.
BoxCorners(lo, hi) ==
    << <<lo[1], lo[2], lo[3]>>, <<lo[1], lo[2], hi[3]>>,
       <<lo[1], hi[2], hi[3]>>, <<lo[1], hi[2], lo[3]>>,
       <<hi[1], lo[2], lo[3]>>, <<hi[1], lo[2], hi[3]>>,
       <<hi[1], hi[2], hi[3]>>, <<hi[1], hi[2], lo[3]>> >>

\* The same object with matrix_world a half turn about the vertical
\* through the middle of the object: corner i goes where the corner
\* opposite in x and y, at the same z, was.
HalfTurned(corners) ==
    << corners[8], corners[7], corners[6], corners[5],
       corners[4], corners[3], corners[2], corners[1] >>

\* The objects find is called on.
SceneObjects ==
    { BoxCorners(<<0, 0, 0>>, <<2, 1, 2>>),
      BoxCorners(<<2, 0, 0>>, <<3, 1, 1>>),
      BoxCorners(<<0, 0, 0>>, <<1, 1, 1>>),
      BoxCorners(<<1, 1, 1>>, <<3, 2, 2>>),
      HalfTurned(BoxCorners(<<0, 0, 0>>, <<2, 1, 2>>)) }

ObjectLists ==
    UNION {[1..n -> SceneObjects] : n \in 0..MaxObjects}

\* The centre argument: left out, or a point.
CentreArguments == {NotGiven, Given(<<0, 0, 0>>), Given(<<1, 1, 1>>)}

InitSphere ==
    /\ objects \in ObjectLists
    /\ bcentre \in CentreArguments
    /\ sphere = NotGiven
    /\ bpc = "call"
    /\ terrain = <<>>
    /\ loc = NoVertex
    /\ hpc = "idle"
    /\ redrawn = FALSE
    /\ initHeight = InitHeightDefault
    /\ ResolverAloneIdle
    /\ ScatterIdle
    /\ TargetIdle
    /\ GenerateIdle
    /\ CameraIdle
    /\ SegmentIdle
    /\ GrowAllIdle
    /\ TexturesIdle
    /\ WriteGroupsIdle
    /\ LineIdle

notbvars == <<hvars, avars, initHeight, svars, tvars, gvars, cvars,
              pvars, wvars, lvars, kvars, xvars>>

NextSphere == SphereFind /\ UNCHANGED notbvars

SpecSphere == InitSphere /\ [][NextSphere]_vars

\* C18: for a non-empty object set the radius find returns is at least the
\* distance from the centre it returns to each of the 8 corner points it
\* constructed, with the centre defaulted and with the centre supplied.
C18_RadiusCoversBox ==
    (bpc = "done" /\ Len(objects) > 0) =>
        /\ sphere.v.centre8 = IF bcentre.given THEN Times8(bcentre.v)
                               ELSE SumOfBox(BoxOf(objects))
        /\ \A i \in 1..8 :
              sphere.v.radius >= Dist2(Times8(BoxOf(objects)[i]),
                                       sphere.v.centre8)

\* find has returned for two objects and a supplied centre, with corner
\* points at different distances from it.
C18_Witness ==
    /\ bpc = "done"
    /\ Len(objects) = 2
    /\ bcentre.given
    /\ \E i, j \in 1..8 :
          Dist2(Times8(BoxOf(objects)[i]), sphere.v.centre8)
              < Dist2(Times8(BoxOf(objects)[j]), sphere.v.centre8)

\* C19: the sphere find returns surrounds the objects: every world-space
\* bounding-box corner of every object lies within the radius of the
\* centre.
C19_SphereSurrounds ==
    bpc = "done" =>
        \A k \in 1..Len(objects) : \A i \in 1..8 :
            Dist2(Times8(objects[k][i]), sphere.v.centre8) <= sphere.v.radius

\* ------------------------------------- camera dispatch and line mode

\* cos and sin of phi for phi a multiple of pi/2, counted in quarter turns.
CosQ(phi) == IF phi % 4 = 0 THEN 1 ELSE IF phi % 4 = 2 THEN 0 - 1 ELSE 0
SinQ(phi) == IF phi % 4 = 1 THEN 1 ELSE IF phi % 4 = 3 THEN 0 - 1 ELSE 0

\* The draws of theta = pi/2 + normal(0, camera_sigma), each given by
\* 2 cos(theta)/sin(theta), and the draws of phi, in quarter turns.
Thetas == {0 - 1, 0, 1}
Phis == 0..3

\* The direction _choose_rotation tests, up to a positive factor:
\* (sin(theta)cos(phi), sin(theta)sin(phi), cos(theta)).
Direction(theta, phi) == <<2 * CosQ(phi), 2 * SinQ(phi), theta>>

Minus(p, q) == <<p[1] - q[1], p[2] - q[2], p[3] - q[3]>>
Dot(p, q) == p[1] * q[1] + p[2] * q[2] + p[3] * q[3]

\* np.arccos(cos_angle) < angle_y/2 for the angle between a direction and
\* to_centre, with angle.num/angle.den the squared cosine of angle_y/2: the
\* cosine of the angle is above that of angle_y/2.  For to_centre zero the
\* quotient is nan and the test fails.
InView(direction, to_centre, angle) ==
    /\ Dot(direction, to_centre) > 0
    /\ Dot(direction, to_centre) * Dot(direction, to_centre) * angle.den
          > angle.num * Dot(direction, direction) * Dot(to_centre, to_centre)

\* The loop over the spheres with to_centre taken from the origin, not
\* from the location.
SphereInViewFromOrigin(direction, location, centres, angle) ==
    \E centre \in centres : InView(direction, centre, angle)

\* The loop over the spheres, of _choose_rotation and of the while loop of
\* src/render.py alike: some centre is in view.
SphereInView(direction, location, centres, angle) ==
    \E centre \in centres : InView(direction, Minus(centre, location), angle)

\* Positions of the camera dispatch are kept times 8, as find's centre is:
\* the mean of 8 corners need not be a whole number.
Scaled8(tree) == [i \in 1..Len(tree) |-> Times8(tree[i])]

\* self.opts['spheres'] once lines 121-125 of Render.__init__ are done: the
\* configured spheres, or the sphere 'default' that find returns for the
\* objects.
SpheresOf(conf, objs) ==
    IF conf.spheres.given THEN {Times8(c) : c \in conf.spheres.v}
    ELSE {FindSphere(objs, NotGiven).centre8}

\* Render.__init__ of src/render/render.py: without configured spheres
\* find is called on the objects and raises when there is none; the
\* lines are converted; then new_sun calls bpy.ops.object.lamd_add,
\* which is no operator, and the constructor raises.
RenderInit ==
    /\ rpc = "init"
    /\ IF ~rconf.v.spheres.given /\ Len(objects) = 0
       THEN UNCHANGED spheres
       ELSE spheres' = SpheresOf(rconf.v, objects)
    /\ rpc' = "error"
    /\ UNCHANGED <<rconf, angleY, lloc, lrot, rejected, accepted>>
    /\ UNCHANGED cvars

\* random_camera: line mode when lines are configured, sphere mode
\* otherwise.
RandomCamera ==
    /\ rpc = "camera"
    /\ IF rconf.v.lines.given
       THEN /\ rpc' = "line"
            /\ UNCHANGED cvars
       ELSE /\ rpc' = "sphere"
            /\ cpc' = "call"
            /\ UNCHANGED <<copts, csphere, cloc>>
    /\ UNCHANGED <<rconf, spheres, angleY, lloc, lrot, rejected, accepted>>

\* (end - start) * t/2 + start, times 8.
Along8(line, t) ==
    <<8 * line.start[1] + 4 * t * (line.end[1] - line.start[1]),
      8 * line.start[2] + 4 * t * (line.end[2] - line.start[2]),
      8 * line.start[3] + 4 * t * (line.end[3] - line.start[3])>>

\* random_camera_line up to _choose_rotation: a location on a line, t
\* halves of the way along it, plus noise.
LineLocation(line, t, noise) ==
    /\ rpc = "line"
    /\ lloc' = Plus(Along8(line, t), Times8(noise))
    /\ rpc' = "rotation"
    /\ UNCHANGED <<rconf, spheres, angleY, lrot, rejected, accepted>>
    /\ UNCHANGED cvars

\* One activation of _choose_rotation: a rotation is drawn and returned if
\* its direction has a sphere centre in view; otherwise _choose_rotation
\* calls itself with the same location.
ChooseRotation(theta, phi) ==
    /\ rpc = "rotation"
    /\ lrot' = Given([theta |-> theta, phi |-> phi])
    /\ IF SphereInView(Direction(theta, phi), lloc, spheres, angleY)
       THEN /\ rpc' = "done"
            /\ accepted' = lrot'
            /\ UNCHANGED rejected
       ELSE /\ rpc' = "rotation"
            /\ rejected' = TRUE
            /\ UNCHANGED accepted
    /\ UNCHANGED <<rconf, spheres, angleY, lloc>>
    /\ UNCHANGED cvars

\* The sphere centres and the lines of configuration files.
SphereSets == { {<<4, 0, 2>>}, {<<4, 0, 0>>, <<0, 4, 0 - 2>>} }
LineSets ==
    { {[start |-> <<0, 0, 0>>, end |-> <<2, 0, 0>>]},
      {[start |-> <<0, 0, 0>>, end |-> <<2, 0, 0>>],
       [start |-> <<0, 0, 1>>, end |-> <<0, 2, 1>>]} }

\* Camera targets as configured: spheres, lines, both or neither.
TargetConfigurations ==
    [spheres : {NotGiven} \cup {Given(c) : c \in SphereSets},
     lines : {NotGiven} \cup {Given(l) : l \in LineSets}]

\* camera.data.angle_y of 90 and of 60 degrees: the squared cosine of
\* half of it is 1/2 and 3/4.
Angles == {[num |-> 1, den |-> 2], [num |-> 3, den |-> 4]}

\* The noise added to a location on a line.
LocationNoise == {<<0, 0, 0>>, <<0, 0, 1>>}

\* The camera options of the dispatch, lengths times 8: a float clearance
\* of 1, or a list [1, 3/2].
DispatchOptions ==
    [camera_clearance : {ScalarClearance(8), RangeClearance(8, 12)},
     camera_floor : {NoFloor},
     camera_theta : BOOLEAN]

\* The scenes a Render is made for: no object besides the landscape, or
\* one.
RenderObjects == {<<>>, <<BoxCorners(<<0, 0, 0>>, <<2, 1, 2>>)>>}

\* What the camera dispatch shares with no other part of the program.
DispatchFrame ==
    /\ angleY \in Angles
    /\ lloc = NoVertex
    /\ lrot = NotGiven
    /\ rejected = FALSE
    /\ accepted = NotGiven
    /\ terrain \in {Scaled8(t) : t \in ScatterTerrains}
    /\ copts \in DispatchOptions
    /\ csphere = NoVertex
    /\ cloc = NoVertex
    /\ cpc = "idle"
    /\ bcentre = NotGiven
    /\ sphere = NotGiven
    /\ bpc = "idle"
    /\ loc = NoVertex
    /\ hpc = "idle"
    /\ redrawn = FALSE
    /\ initHeight = InitHeightDefault
    /\ ResolverAloneIdle
    /\ ScatterIdle
    /\ TargetIdle
    /\ GenerateIdle
    /\ SegmentIdle
    /\ GrowAllIdle
    /\ TexturesIdle
    /\ WriteGroupsIdle

\* Render(objects, conf_file) is called.
InitRandomCamera ==
    /\ rpc = "init"
    /\ rconf \in {Given(c) : c \in TargetConfigurations}
    /\ objects \in RenderObjects
    /\ spheres = {}
    /\ DispatchFrame

notlcvars == <<hvars, avars, initHeight, svars, tvars, gvars,
               pvars, bvars, wvars, kvars, xvars>>

NextRandomCamera ==
    \/ RenderInit /\ UNCHANGED notlcvars
    \/ RandomCamera /\ UNCHANGED notlcvars
    \/ \E centre \in spheres :
          CameraEnter(centre) /\ UNCHANGED lvars /\ UNCHANGED notlcvars
    \/ \E offset \in CameraOffsets(copts) :
          CameraDraw(Times8(offset)) /\ UNCHANGED lvars /\ UNCHANGED notlcvars
    \/ \E u \in UniformDraws(copts.camera_clearance.lo,
                              copts.camera_clearance.hi) :
          CameraChooseHeight(u) /\ UNCHANGED lvars /\ UNCHANGED notlcvars
    \/ \E lines \in LineSets : \E line \in lines, t \in 0..1,
              noise \in LocationNoise :
          /\ rconf.v.lines = Given(lines)
          /\ LineLocation(line, t, noise)
          /\ UNCHANGED notlcvars
    \/ \E theta \in Thetas, phi \in Phis :
          ChooseRotation(theta, phi) /\ UNCHANGED notlcvars

\* As the constructor raises, no behaviour gets past RenderInit: the
\* methods of this Render are never entered.
SpecRandomCamera == InitRandomCamera /\ [][NextRandomCamera]_vars

\* ------------------------------------- line mode of src/render.py

\* random_camera_line of src/render.py up to its while loop: a location
\* on a line, t halves of the way along it.
LoopLineLocation(line, t) ==
    /\ rpc = "line"
    /\ lloc' = Along8(line, t)
    /\ rpc' = "loop"
    /\ UNCHANGED <<rconf, spheres, angleY, lrot, rejected, accepted>>

\* One round of `while True` in random_camera_line of src/render.py: a
\* rotation is drawn and the spheres are gone through; the `break` on a
\* centre in view leaves the for loop, and the while loop goes on.
LoopLineRound(theta, phi) ==
    /\ rpc = "loop"
    /\ lrot' = Given([theta |-> theta, phi |-> phi])
    /\ IF SphereInView(Direction(theta, phi), lloc, spheres, angleY)
       THEN /\ accepted' = IF accepted.given THEN accepted ELSE lrot'
            /\ UNCHANGED rejected
       ELSE /\ rejected' = TRUE
            /\ UNCHANGED accepted
    /\ rpc' = "loop"
    /\ UNCHANGED <<rconf, spheres, angleY, lloc>>

InitLoopLine ==
    /\ rconf \in {Given([spheres |-> Given(c), lines |-> Given(l)]) :
                     c \in SphereSets, l \in LineSets}
    /\ spheres = SpheresOf(rconf.v, <<>>)
    /\ angleY \in Angles
    /\ lloc = NoVertex
    /\ lrot = NotGiven
    /\ rejected = FALSE
    /\ accepted = NotGiven
    /\ rpc = "line"
    /\ terrain = <<>>
    /\ loc = NoVertex
    /\ hpc = "idle"
    /\ redrawn = FALSE
    /\ initHeight = InitHeightDefault
    /\ ResolverAloneIdle
    /\ ScatterIdle
    /\ TargetIdle
    /\ GenerateIdle
    /\ CameraIdle
    /\ SegmentIdle
    /\ GrowAllIdle
    /\ TexturesIdle
    /\ SphereIdle
    /\ WriteGroupsIdle

notlvars == <<hvars, avars, initHeight, svars, tvars, gvars, cvars,
              pvars, bvars, wvars, kvars, xvars>>

NextLoopLine ==
    \/ \E line \in rconf.v.lines.v, t \in 0..1 :
          LoopLineLocation(line, t) /\ UNCHANGED notlvars
    \/ \E theta \in Thetas, phi \in Phis :
          LoopLineRound(theta, phi) /\ UNCHANGED notlvars

SpecLoopLine == InitLoopLine /\ [][NextLoopLine]_vars

\* C22: line-mode rotation sampling stops at the first acceptable draw: once
\* a drawn rotation has a sphere centre in view no further rotation is
\* drawn, and random_camera_line returns with that rotation.
C22_StopsAtFirstAcceptable ==
    accepted.given => (rpc = "done" /\ lrot = accepted)

\* ------------------------------------- Render of src/render.py

\* Render.__init__ of src/render.py: without a spheres file the bounding
\* sphere of the objects becomes the sphere 'default', and find raises
\* when there is no object; the lines file, a list of [name, line] pairs
\* as the loop of lines 119-122 unpacks it, is loaded if given.
OldRenderInit ==
    /\ rpc = "init"
    /\ IF ~rconf.v.spheres.given /\ Len(objects) = 0
       THEN /\ rpc' = "error"
            /\ UNCHANGED spheres
       ELSE /\ spheres' = SpheresOf(rconf.v, objects)
            /\ rpc' = "camera"
    /\ UNCHANGED <<rconf, angleY, lloc, lrot, rejected, accepted>>
    /\ UNCHANGED cvars

\* random_camera of src/render.py: line mode when self.camera_lines is
\* set, sphere mode otherwise.
OldRandomCamera ==
    /\ rpc = "camera"
    /\ IF rconf.v.lines.given
       THEN /\ rpc' = "line"
            /\ UNCHANGED cvars
       ELSE /\ rpc' = "sphere"
            /\ cpc' = "call"
            /\ UNCHANGED <<copts, csphere, cloc>>
    /\ UNCHANGED <<rconf, spheres, angleY, lloc, lrot, rejected, accepted>>

\* Render(objects, conf_file, spheres_file, lines_file) is called.
InitOldRender ==
    /\ rpc = "init"
    /\ rconf \in {Given(c) : c \in TargetConfigurations}
    /\ objects \in RenderObjects
    /\ spheres = {}
    /\ DispatchFrame

NextOldRender ==
    \/ OldRenderInit /\ UNCHANGED notlcvars
    \/ OldRandomCamera /\ UNCHANGED notlcvars
    \/ \E centre \in spheres :
          CameraEnter(centre) /\ UNCHANGED lvars /\ UNCHANGED notlcvars
    \/ \E offset \in CameraOffsets(copts) :
          CameraDraw(Times8(offset)) /\ UNCHANGED lvars /\ UNCHANGED notlcvars
    \/ \E u \in UniformDraws(copts.camera_clearance.lo,
                              copts.camera_clearance.hi) :
          CameraChooseHeight(u) /\ UNCHANGED lvars /\ UNCHANGED notlcvars
    \/ /\ rconf.v.lines.given
       /\ \E line \in rconf.v.lines.v, t \in 0..1 :
             LoopLineLocation(line, t) /\ UNCHANGED notlvars
    \/ \E theta \in Thetas, phi \in Phis :
          LoopLineRound(theta, phi) /\ UNCHANGED notlvars

SpecOldRender == InitOldRender /\ [][NextOldRender]_vars

C15_NoTargetsNoPose ==
    (rconf.v.spheres = NotGiven /\ rconf.v.lines = NotGiven) =>
        /\ rpc # "done"
        /\ cpc # "done"

\* ------------------------------------------------- Scale.write_groups

\* `name in data` for a mapping kept as a sequence of [name, groups].
NameIn(name, mapping) == \E i \in 1..Len(mapping) : mapping[i].name = name

\* `data[name] = groups`: the entry of the name is replaced where it is,
\* a new name is added at the end.
SetItem(mapping, name, value) ==
    IF NameIn(name, mapping)
    THEN [i \in 1..Len(mapping) |->
            IF mapping[i].name = name
            THEN [name |-> name, groups |-> value] ELSE mapping[i]]
    ELSE Append(mapping, [name |-> name, groups |-> value])

\* The definition is written whether the name exists or not.
MayWriteAlways(name, mapping, overwrite) == TRUE

\* `name not in data or overwrite`.
MayWrite(name, mapping, overwrite) == ~NameIn(name, mapping) \/ overwrite

\* write_groups up to json.load(file): a file that is missing or holds no
\* JSON raises.
WriteGroupsLoad ==
    /\ wpc = "call"
    /\ IF gfile.state = "json"
       THEN /\ wdata' = gfile.records
            /\ wpc' = "loaded"
       ELSE /\ wpc' = "error"
            /\ UNCHANGED wdata
    /\ UNCHANGED <<gfile, gfile0, wargs>>

\* The rest of write_groups: the file is opened for writing, which empties
\* it; then the definition is stored and the mapping dumped, or ValueError
\* is raised and the file stays empty.
WriteGroupsStore ==
    /\ wpc = "loaded"
    /\ IF MayWrite(wargs.v.name, wdata, wargs.v.overwrite)
       THEN /\ wdata' = SetItem(wdata, wargs.v.name, wargs.v.groups)
            /\ gfile' = JsonFile(wdata')
            /\ wpc' = "done"
       ELSE /\ gfile' = EmptyFile
            /\ wpc' = "error"
            /\ UNCHANGED wdata
    /\ UNCHANGED <<gfile0, wargs>>

\* The names and the values of self.groups used.
GroupNames == {"bridge", "arch"}
GroupValues == {"groups", "other groups"}

\* The groups files write_groups is called on.
GroupFiles ==
    { NoFile, EmptyFile, JsonFile(<<>>),
      JsonFile(<<[name |-> "bridge", groups |-> "groups"]>>),
      JsonFile(<<[name |-> "bridge", groups |-> "other groups"]>>),
      JsonFile(<<[name |-> "arch", groups |-> "other groups"]>>),
      JsonFile(<<[name |-> "bridge", groups |-> "groups"],
                 [name |-> "arch", groups |-> "other groups"]>>) }

InitWriteGroups ==
    /\ gfile \in GroupFiles
    /\ gfile0 = gfile
    /\ wdata = <<>>
    /\ wargs \in {Given(a) : a \in [name : GroupNames, overwrite : BOOLEAN,
                                     groups : GroupValues]}
    /\ wpc = "call"
    /\ terrain = <<>>
    /\ loc = NoVertex
    /\ hpc = "idle"
    /\ redrawn = FALSE
    /\ initHeight = InitHeightDefault
    /\ ResolverAloneIdle
    /\ ScatterIdle
    /\ TargetIdle
    /\ GenerateIdle
    /\ CameraIdle
    /\ SegmentIdle
    /\ GrowAllIdle
    /\ TexturesIdle
    /\ SphereIdle
    /\ LineIdle

notwvars == <<hvars, avars, initHeight, svars, tvars, gvars, cvars,
              pvars, bvars, lvars, kvars, xvars>>

NextWriteGroups ==
    \/ WriteGroupsLoad /\ UNCHANGED notwvars
    \/ WriteGroupsStore /\ UNCHANGED notwvars

SpecWriteGroups == InitWriteGroups /\ [][NextWriteGroups]_vars

\* The groups a mapping holds under a name.
GroupsOf(mapping, name) ==
    {mapping[i].groups : i \in {j \in 1..Len(mapping) : mapping[j].name = name}}

\* C17: on a groups file that holds a mapping, write_groups with
\* overwrite false fails when the name is already defined in the file;
\* when the name is not yet defined, or overwrite is true, it does not
\* fail and the file then holds self.groups under the name.
C17_WriteGroups ==
    gfile0.state = "json" =>
        IF NameIn(wargs.v.name, gfile0.records) /\ ~wargs.v.overwrite
        THEN wpc # "done"
        ELSE /\ wpc # "error"
             /\ wpc = "done" =>
                   /\ gfile.state = "json"
                   /\ GroupsOf(gfile.records, wargs.v.name) = {wargs.v.groups}

\* write_groups has failed on a name the file defined, with overwrite false.
C17_Witness ==
    /\ wpc = "error"
    /\ gfile0.state = "json"
    /\ NameIn(wargs.v.name, gfile0.records)
    /\ ~wargs.v.overwrite

\* C28: when write_groups has failed because the name is defined in the
\* file and overwrite is false, the file is what it was before the call.
C28_FileKeptOnError ==
    (/\ wpc = "error"
     /\ gfile0.state = "json"
     /\ NameIn(wargs.v.name, gfile0.records)
     /\ ~wargs.v.overwrite) => gfile = gfile0

\* ------------------------------------------------ Textures, helpers.Dict

\* `k in mapping` for a mapping kept, in insertion order, as a sequence of
\* [key, value].
HasKey(mapping, k) == \E i \in 1..Len(mapping) : mapping[i].key = k

\* dict.__getitem__ for a key the mapping has.
ValueOf(mapping, k) ==
    mapping[CHOOSE i \in 1..Len(mapping) : mapping[i].key = k].value

\* Dict.__missing__(key): an empty list; nothing is stored.
Missing(k) == <<>>

\* mapping[k] of a helpers.Dict: the stored list, or what __missing__
\* returns.
GetItem(mapping, k) ==
    IF HasKey(mapping, k) THEN ValueOf(mapping, k) ELSE Missing(k)

\* mapping[k] = value: replaced where it is, or added at the end.
DictSetItem(mapping, k, value) ==
    IF HasKey(mapping, k)
    THEN [i \in 1..Len(mapping) |->
            IF mapping[i].key = k
            THEN [key |-> k, value |-> value] ELSE mapping[i]]
    ELSE Append(mapping, [key |-> k, value |-> value])

\* The list given replaces the list stored.
IAddReplacing(mapping, k, items) == DictSetItem(mapping, k, items)

\* `mapping[k] += items`: __getitem__ (or __missing__), then the list is
\* extended by the items and stored under the key.
IAdd(mapping, k, items) ==
    DictSetItem(mapping, k, GetItem(mapping, k) \o items)

\* add_textures(group, textures).
AddTextures(group, list) ==
    /\ xpc = "ready"
    /\ Len(tlog) + Len(glog) < MaxCalls
    /\ textures' = IAdd(textures, group, list)
    /\ tlog' = Append(tlog, [key |-> group, value |-> list])
    /\ UNCHANGED <<groups, glog, material, xpc>>

\* add_parts_to_group(group, parts).
AddPartsToGroup(group, parts) ==
    /\ xpc = "ready"
    /\ Len(tlog) + Len(glog) < MaxCalls
    /\ groups' = IAdd(groups, group, parts)
    /\ glog' = Append(glog, [key |-> group, value |-> parts])
    /\ UNCHANGED <<textures, tlog, material, xpc>>

\* read(texture_file): self.textures and self.groups are replaced by the
\* mappings of the file.
ReadTextures(file) ==
    /\ xpc = "ready"
    /\ textures' = file.textures
    /\ groups' = file.groups
    /\ tlog' = file.textures
    /\ glog' = file.groups
    /\ UNCHANGED <<material, xpc>>

\* The elements of a list.
Elements(list) == {list[i] : i \in 1..Len(list)}

RECURSIVE TextureFrom(_, _, _)
\* The loop of texture() from the i-th item of self.textures on, with the
\* draws of np.random.choice in pick: a texture is chosen for the group
\* and given to the parts of the group, or to the part named like the
\* group if there is no such group; np.random.choice raises ValueError on
\* an empty list.
TextureFrom(i, mat, pick) ==
    IF i > Len(textures) THEN [ok |-> TRUE, mat |-> mat]
    ELSE IF Len(textures[i].value) = 0 THEN [ok |-> FALSE, mat |-> mat]
    ELSE LET group == textures[i].key
             texture == textures[i].value[pick[i]]
             parts == IF HasKey(groups, group)
                      THEN Elements(ValueOf(groups, group)) ELSE {group}
         IN  TextureFrom(i + 1,
                         [p \in DOMAIN mat |->
                             IF p \in parts THEN texture ELSE mat[p]],
                         pick)

\* texture() with the draws of np.random.choice.
Texture(pick) ==
    /\ xpc = "ready"
    /\ LET r == TextureFrom(1, material, pick)
       IN  /\ material' = r.mat
           /\ xpc' = IF r.ok THEN "ready" ELSE "error"
    /\ UNCHANGED <<textures, groups, tlog, glog>>

\* The group names, the part lists and the texture lists of the calls,
\* and the part names of the objects in the scene.
TextureGroups == {"deck", "rail"}
PartLists == {<<"beam">>, <<"beam", "rail">>}
TextureLists == {<<>>, <<"steel">>, <<"stone", "steel">>}
SceneParts == {"deck", "rail", "beam"}

\* The texture files read: the 'textures' and 'groups' mappings of each.
TextureFiles ==
    { [textures |-> <<>>, groups |-> <<>>],
      [textures |-> <<[key |-> "deck", value |-> <<"steel">>]>>,
       groups |-> <<>>],
      [textures |-> <<[key |-> "rail", value |-> <<"stone">>]>>,
       groups |-> <<[key |-> "rail", value |-> <<"beam">>]>>] }

\* The draws np.random.choice can make for the items of self.textures.
Picks ==
    {f \in [1..Len(textures) -> 1..(2 * MaxCalls)] :
        \A i \in 1..Len(textures) :
           f[i] <= Max(1, Len(textures[i].value))}

InitTextures ==
    /\ textures = <<>>
    /\ groups = <<>>
    /\ tlog = <<>>
    /\ glog = <<>>
    /\ material = [p \in SceneParts |-> "none"]
    /\ xpc = "ready"
    /\ terrain = <<>>
    /\ loc = NoVertex
    /\ hpc = "idle"
    /\ redrawn = FALSE
    /\ initHeight = InitHeightDefault
    /\ ResolverAloneIdle
    /\ ScatterIdle
    /\ TargetIdle
    /\ GenerateIdle
    /\ CameraIdle
    /\ SegmentIdle
    /\ SphereIdle
    /\ WriteGroupsIdle
    /\ LineIdle
    /\ GrowAllIdle

notxvars == <<hvars, avars, initHeight, svars, tvars, gvars, cvars,
              pvars, bvars, wvars, lvars, kvars>>

NextTextures ==
    \/ \E group \in TextureGroups, list \in TextureLists :
          AddTextures(group, list) /\ UNCHANGED notxvars
    \/ \E group \in TextureGroups, parts \in PartLists :
          AddPartsToGroup(group, parts) /\ UNCHANGED notxvars
    \/ \E pick \in Picks : Texture(pick) /\ UNCHANGED notxvars
    \/ \E file \in TextureFiles : ReadTextures(file) /\ UNCHANGED notxvars

SpecTextures == InitTextures /\ [][NextTextures]_vars

RECURSIVE Concatenated(_, _)
\* The lists added for the key by the calls of the log, concatenated in
\* call order.
Concatenated(log, k) ==
    IF log = <<>> THEN <<>>
    ELSE (IF Head(log).key = k THEN Head(log).value ELSE <<>>)
            \o Concatenated(Tail(log), k)

\* The mapping has a key exactly if a call of the log added to it, has it
\* once, and stores for it the concatenation of the lists added.
DictAgrees(mapping, log) ==
    \A k \in TextureGroups \cup SceneParts :
       /\ HasKey(mapping, k) <=> \E i \in 1..Len(log) : log[i].key = k
       /\ Cardinality({i \in 1..Len(mapping) : mapping[i].key = k}) <= 1
       /\ HasKey(mapping, k) => ValueOf(mapping, k) = Concatenated(log, k)

\* C30: after any sequence of add_textures, add_parts_to_group and
\* texture calls, self.textures and self.groups store for each group the
\* concatenation, in call order, of the lists added for it (after the
\* list a file read before them gave it), and have no key for a group
\* that was never added to, looked up or not.
C30_DictConcatenates ==
    xpc # "idle" => DictAgrees(textures, tlog) /\ DictAgrees(groups, glog)

\* Two lists have been added for a group of self.textures, the first not
\* empty, and texture() has looked the group up in self.groups, which has
\* no such group, and textured the part of that name.
C30_Witness ==
    \E k \in TextureGroups :
       /\ \E i, j \in 1..Len(tlog) :
             /\ i < j
             /\ tlog[i].key = k
             /\ tlog[j].key = k
             /\ Len(tlog[i].value) > 0
             /\ Len(tlog[j].value) > 0
       /\ ~HasKey(groups, k)
       /\ Len(groups) > 0
       /\ material[k] # "none"

\* ------------------------------------------------------------- segment

\* Any count up to n, also when every trial is certain to succeed.
BinomialAnyCount(n, k) == 0..n

\* The values np.random.binomial(n, 1/k) can take: the number of successes
\* in n trials; with k = 1 the probability is 1 and every trial succeeds.
Binomial(n, k) == IF k = 1 THEN {n} ELSE 0..n

\* One activation of segment with pieces left: a piece is drawn and
\* segment calls itself with the rest.
SegmentStep(piece) ==
    /\ segpc = "call"
    /\ pieces # 0
    /\ piece \in Binomial(snumber, pieces)
    /\ snumber' = snumber - piece
    /\ pieces' = pieces - 1
    /\ res' = Append(res, piece)
    /\ UNCHANGED <<segArgs, segpc>>

\* The activation with pieces == 0 returns res.
SegmentReturn ==
    /\ segpc = "call"
    /\ pieces = 0
    /\ segpc' = "done"
    /\ UNCHANGED <<snumber, pieces, res, segArgs>>

InitSegment ==
    /\ snumber \in 0..MaxTotal
    /\ pieces \in 0..MaxPieces
    /\ res = <<>>
    /\ segArgs = [number |-> snumber, pieces |-> pieces]
    /\ segpc = "call"
    /\ terrain = <<>>
    /\ loc = NoVertex
    /\ hpc = "idle"
    /\ redrawn = FALSE
    /\ initHeight = InitHeightDefault
    /\ ResolverAloneIdle
    /\ ScatterIdle
    /\ TargetIdle
    /\ GenerateIdle
    /\ CameraIdle
    /\ SphereIdle
    /\ WriteGroupsIdle
    /\ LineIdle
    /\ GrowAllIdle
    /\ TexturesIdle

notpvars == <<hvars, avars, initHeight, svars, tvars, gvars, cvars,
              bvars, wvars, lvars, kvars, xvars>>

NextSegment ==
    \/ \E piece \in 0..MaxTotal : SegmentStep(piece) /\ UNCHANGED notpvars
    \/ SegmentReturn /\ UNCHANGED notpvars

SpecSegment == InitSegment /\ [][NextSegment]_vars

RECURSIVE SumSeq(_)
SumSeq(q) == IF q = <<>> THEN 0 ELSE q[1] + SumSeq(Tail(q))

\* C11: segment(total, parts) with total >= 0 and parts >= 1 returns a list
\* of exactly `parts` non-negative integers whose sum is `total`, whatever
\* the binomial draws are.
C11_SegmentSum ==
    (segpc = "done" /\ segArgs.pieces >= 1) =>
        /\ Len(res) = segArgs.pieces
        /\ \A i \in 1..Len(res) : res[i] >= 0
        /\ SumSeq(res) = segArgs.number

\* segment has returned three pieces, the first two of them not zero.
C11_Witness ==
    /\ segpc = "done"
    /\ segArgs.pieces = 3
    /\ res[1] > 0
    /\ res[2] > 0

\* ------------------------------------------- resolver applied on its own

\* Terrain vertices lie in two columns, at the start location's (x, y) and
\* one grid unit beside it.
GridPoints == {<<x, 0, z>> : x \in 0..1, z \in 0..MaxZ}

\* The sequences of exactly n distinct elements of S.
SeqsOf(S, n) ==
    {s \in [1..n -> S] : \A i, j \in 1..n : i # j => s[i] # s[j]}

Terrains == UNION {SeqsOf(GridPoints, n) : n \in 0..MaxVerts}

StartLocations == {<<0, 0, z>> : z \in 0..(MaxZ + Dig)}

InitHeight ==
    /\ terrain \in Terrains
    /\ loc \in StartLocations
    /\ hpc = "call"
    /\ redrawn = FALSE
    /\ app = 1
    /\ start = loc
    /\ first = NoVertex
    /\ initHeight = InitHeightDefault
    /\ ScatterIdle
    /\ TargetIdle
    /\ GenerateIdle
    /\ CameraIdle
    /\ UtilIdle

\* The caller applies _find_height again to the location it got back.
Reapply ==
    /\ hpc = "done"
    /\ app = 1
    /\ app' = 2
    /\ first' = loc
    /\ hpc' = "call"
    /\ redrawn' = FALSE
    /\ UNCHANGED <<terrain, loc, start>>
    /\ UNCHANGED <<initHeight, svars, tvars, gvars, cvars, uvars>>

\* An activation of the resolver called on its own.
FindHeightAlone(u) ==
    FindHeight(u) /\ UNCHANGED <<avars, initHeight, svars, tvars, gvars, cvars, uvars>>

NextHeight ==
    \/ \E u \in Draws : FindHeightAlone(u)
    \/ FindHeightError /\ UNCHANGED <<avars, initHeight, svars, tvars, gvars, cvars, uvars>>
    \/ Reapply

SpecHeight == InitHeight /\ [][NextHeight]_vars

\* The draws are random: a draw value that can be taken again and again is
\* eventually taken.
FairSpecHeight ==
    /\ SpecHeight
    /\ \A u \in Draws : SF_vars(FindHeightAlone(u))

\* ----------------------------------------------------- resolver properties

\* The vertex nearest to the (x, y) projection of co; a tie goes to the
\* vertex inserted first.
FindXY(tree, co) ==
    LET i == CHOOSE i \in 1..Len(tree) :
                \A j \in 1..Len(tree) :
                    \/ HDist2(tree[j], co) > HDist2(tree[i], co)
                    \/ HDist2(tree[j], co) = HDist2(tree[i], co) /\ j >= i
    IN tree[i]

\* z lies in the open band (n.z - Dig, n.z) of the vertex n nearest in 3-D.
InOpenBand(tree, location) ==
    /\ location[3] > Find(tree, location)[3] - Dig
    /\ location[3] < Find(tree, location)[3]

\* z lies in the half-open band (n.z - Dig, n.z] of the vertex n nearest to
\* the (x, y) projection.
InHalfOpenBandXY(tree, location) ==
    /\ location[3] > FindXY(tree, location)[3] - Dig
    /\ location[3] <= FindXY(tree, location)[3]

\* C8 as stated: _find_height accepts a location (returns it with no redraw)
\* exactly when its z lies in the half-open band (n.z - Dig, n.z] of the
\* vertex n nearest to its (x, y) projection, and every returned location
\* lies in that band.
C8_HalfOpenBand ==
    (hpc = "done" /\ app = 1) =>
        /\ InHalfOpenBandXY(terrain, loc)
        /\ (~redrawn <=> InHalfOpenBandXY(terrain, start))

\* C8 amended: _find_height accepts a location exactly when its z lies in
\* the open band (n.z - Dig, n.z) of the vertex n nearest to the location in
\* 3-D; every returned location lies in that band, and a location with z
\* equal to n.z is not accepted but redrawn.
C8_OpenBand ==
    (hpc = "done" /\ app = 1) =>
        /\ InOpenBand(terrain, loc)
        /\ (~redrawn <=> InOpenBand(terrain, start))
        /\ (~redrawn => loc = start)
        /\ (start[3] = Find(terrain, start)[3] => redrawn)

\* A call that started at the height of its nearest vertex has returned.
C8_Witness ==
    /\ hpc = "done"
    /\ app = 1
    /\ start[3] = Find(terrain, start)[3]
    /\ redrawn

\* C9: applying _find_height to a location it has returned gives back the
\* same location, with no redraw of z.
C9_Idempotent ==
    app = 2 =>
        /\ ~redrawn
        /\ loc = first
        /\ hpc \in {"call", "done"}

\* The second application has returned, after a first one that moved z.
C9_Witness ==
    /\ app = 2
    /\ hpc = "done"
    /\ first # start

\* C10: on a non-empty terrain every call of _find_height eventually
\* returns, whatever the start location.
C10_Terminates ==
    (hpc = "call" /\ Len(terrain) > 0) ~> (hpc = "done")

\* A call has returned after its nearest vertex changed between two
\* activations.
C10_Witness ==
    /\ hpc = "done"
    /\ app = 1
    /\ redrawn
    /\ Find(terrain, start) # Find(terrain, loc)

====
